---- MODULE Spec2Model ----
(***************************************************************************)
(* Model of tools/onnx-analyzer/analyze_model.py: the inspector            *)
(* analyze_onnx_model and the batch driver main.                           *)
(*                                                                         *)
(* The console and the calls into onnx / onnxruntime are recorded, in the  *)
(* order they happen, in the history variable log.  The outcome of every   *)
(* library call is chosen by the environment when the call is made.        *)
(***************************************************************************)
EXTENDS Integers, Sequences, FiniteSets, TLC

VARIABLES
    fs,          \* the model files named on the command line (args.model_paths)
    pc,          \* position of the program
    i,           \* loop index of main (0-based, as enumerate gives it)
    path,        \* model_path of the running analyze_onnx_model call (index into fs)
    test_shape,  \* local test_shape of analyze_onnx_model
    norm_idx,    \* position in normalized_inputs.items()
    ret,         \* value returned by the last analyze_onnx_model call
    log          \* history: printed lines and library calls, in order

vars == <<fs, pc, i, path, test_shape, norm_idx, ret, log>>

----------------------------------------------------------------------------
(* Bounds of the model *)

MaxPaths == 3
MaxRank == 4
MaxStaticRank == 2

SeqsUpTo(S, n) == UNION {[1..k -> S] : k \in 0..n}

----------------------------------------------------------------------------
(* Values *)

\* An element of a Python list that holds ints, strings or None.
IntElem(v) == [ty |-> "int", i |-> v, s |-> ""]
StrElem(x) == [ty |-> "str", i |-> 0, s |-> x]
NoneElem == [ty |-> "none", i |-> 0, s |-> ""]

\* onnx TensorShapeProto.Dimension: a oneof of dim_value and dim_param.
\* Reading the field that is not set gives its default (0 or "").
DimValue(v) == [which |-> "dim_value", dim_value |-> v, dim_param |-> ""]
DimParam(p) == [which |-> "dim_param", dim_value |-> 0, dim_param |-> p]
DimUnset == [which |-> "none", dim_value |-> 0, dim_param |-> ""]

StaticDims == {DimValue(3), DimValue(0), DimParam("N"), DimParam(""), DimUnset}

Tensors == {[name |-> "x", type |-> "tensor(float)", dims |-> d] :
               d \in SeqsUpTo(StaticDims, MaxStaticRank)}

\* Dimensions onnxruntime reports: an int, a symbolic name, or None.
RuntimeDims == {IntElem(3), IntElem(2), IntElem(-1), StrElem("N"), NoneElem}

RuntimeShapes == SeqsUpTo(RuntimeDims, MaxRank)

NodeArg(shape) == [name |-> "x", shape |-> shape, type |-> "tensor(float)"]

\* The probes of normalized_inputs, in insertion order.
NormNames == <<"0-1 normalization", "[-1,1] normalization", "ImageNet normalization">>

\* Outcomes of the synthetic inference: session.run raises, returns no
\* output, returns an empty first output, or returns a non-empty one.
RunOutcomes == {"ok", "raises", "no_output", "empty_output"}

----------------------------------------------------------------------------
(* The console and call history *)

Ev(ev, kind, m, txt, shape, a, b) ==
    [ev |-> ev, kind |-> kind, m |-> m, txt |-> txt, shape |-> shape, a |-> a, b |-> b]

Out(kind, m) == Ev("print", kind, m, "", <<>>, 0, 0)
OutTxt(kind, m, txt) == Ev("print", kind, m, txt, <<>>, 0, 0)
OutShape(kind, m, shape) == Ev("print", kind, m, "", shape, 0, 0)
OutIdx(kind, m, a, b) == Ev("print", kind, m, "", <<>>, a, b)
Call(kind, m, outcome, a) == Ev("call", kind, m, outcome, <<>>, a, 0)
Returned(m, b) == Ev("return", "return", m, IF b THEN "True" ELSE "False", <<>>, 0, 0)

----------------------------------------------------------------------------
(* Pure helpers of analyze_onnx_model *)

\* Variant: the symbolic name is never looked at.
ShapeElem_no_param(dim) ==
    IF dim.dim_value # 0 THEN IntElem(dim.dim_value) ELSE StrElem("unknown")

\* Lines 44-49 (and 64-69): one element of the derived static shape.
ShapeElem(dim) ==
    IF dim.dim_value # 0 THEN IntElem(dim.dim_value)
    ELSE IF dim.dim_param # "" THEN StrElem(dim.dim_param)
    ELSE StrElem("unknown")

\* Lines 42-49: the derived static shape of one tensor.
DerivedShape(dims) == [j \in 1..Len(dims) |-> ShapeElem(dims[j])]

\* Lines 36-51 (and 56-71): what is printed for one declared tensor.
TensorLines(head, m, idx, t) ==
    <<OutIdx(head, m, idx, 0), OutTxt("name", m, t.name), OutTxt("type", m, t.type)>>
    \o (IF Len(t.dims) > 0 THEN <<OutShape("shape", m, DerivedShape(t.dims))>> ELSE <<>>)
    \o <<Out("blank", m)>>

RECURSIVE TensorsLines(_, _, _, _)
\* Lines 35-51 (and 55-71): the loop over the declared tensors, from index idx.
TensorsLines(head, m, ts, idx) ==
    IF idx >= Len(ts) THEN <<>>
    ELSE TensorLines(head, m, idx, ts[idx + 1]) \o TensorsLines(head, m, ts, idx + 1)

\* Lines 80-83 (and 88-91): what is printed for one runtime input or output.
NodeArgLines(m, na) ==
    <<OutTxt("rt_name", m, na.name), OutShape("rt_shape", m, na.shape),
      OutTxt("rt_type", m, na.type), Out("blank", m)>>

RECURSIVE NodeArgsLines(_, _, _)
NodeArgsLines(m, nas, idx) ==
    IF idx >= Len(nas) THEN <<>>
    ELSE NodeArgLines(m, nas[idx + 1]) \o NodeArgsLines(m, nas, idx + 1)

\* Variant: only symbolic names count as dynamic.
IsDynamic_only_names(dim) == dim.ty = "str"

\* Line 101: is a runtime dimension dynamic?
IsDynamic(dim) == dim.ty = "str" \/ (dim.ty = "int" /\ dim.i = -1)

\* Lines 99-104: the concrete test shape.
TestShape(input_shape) ==
    [j \in 1..Len(input_shape) |->
        IF IsDynamic(input_shape[j]) THEN IntElem(1) ELSE input_shape[j]]

\* Line 109: np.random.rand(*test_shape) needs every dimension to be a
\* non-negative int.
RandRaises(shape) == \E j \in 1..Len(shape) : shape[j].ty # "int" \/ shape[j].i < 0

\* Variant: the two tests of the heuristic are made in the other order.
LayoutLines_nhwc_first(m, shape) ==
    IF Len(shape) = 4
    THEN IF shape[4] = IntElem(3) THEN <<OutTxt("tensor_format", m, "NHWC")>>
         ELSE IF shape[2] = IntElem(3) THEN <<OutTxt("tensor_format", m, "NCHW")>>
         ELSE <<OutTxt("tensor_format", m, "Unknown")>>
    ELSE <<>>

\* Lines 119-125: the lines of the layout heuristic.
LayoutLines(m, shape) ==
    IF Len(shape) = 4
    THEN IF shape[2] = IntElem(3) THEN <<OutTxt("tensor_format", m, "NCHW")>>
         ELSE IF shape[4] = IntElem(3) THEN <<OutTxt("tensor_format", m, "NHWC")>>
         ELSE <<OutTxt("tensor_format", m, "Unknown")>>
    ELSE <<>>

\* Variant: the probing block runs for every shape of at least two dimensions.
ProbesRun_any_rank(shape) == Len(shape) >= 2

\* Line 129: does the probing block run?
ProbesRun(shape) == Len(shape) = 4

\* Lines 146-148: the handler of the outer try.
ErrorLines(m) == <<OutTxt("error", m, "exception")>>

----------------------------------------------------------------------------
(* Initial states: the files named on the command line *)

File(input, output, inputs, outputs) ==
    [graph |-> [input |-> input, output |-> output],
     inputs |-> inputs, outputs |-> outputs]

PlainTensor ==
    [name |-> "x", type |-> "tensor(float)", dims |-> <<DimParam("N"), DimValue(3)>>]
PlainShape == <<StrElem("N"), IntElem(2)>>
ImageShape == <<StrElem("N"), IntElem(3), IntElem(2), IntElem(2)>>

\* Lists of declared tensors: none, one, or two of which the second varies.
TensorLists ==
    {<<>>} \cup {<<t>> : t \in Tensors} \cup {<<PlainTensor, t>> : t \in Tensors}

\* One model file whose declared inputs, or outputs, range over TensorLists.
GraphFiles ==
    {File(ts, <<PlainTensor>>, <<NodeArg(PlainShape)>>, <<NodeArg(PlainShape)>>) :
        ts \in TensorLists}
    \cup
    {File(<<PlainTensor>>, ts, <<NodeArg(PlainShape)>>, <<NodeArg(PlainShape)>>) :
        ts \in TensorLists}

\* One model file whose first runtime input ranges over the bounded shapes,
\* and one whose session reports no input and no output at all.
ShapeFiles ==
    {File(<<PlainTensor>>, <<PlainTensor>>, <<NodeArg(sh)>>, <<NodeArg(PlainShape)>>) :
        sh \in RuntimeShapes}
    \cup {File(<<PlainTensor>>, <<PlainTensor>>, <<>>, <<>>)}

\* The files of a batch of several models: one whose input is an image, one
\* whose input is not.
ImageFile == File(<<PlainTensor>>, <<PlainTensor>>, <<NodeArg(ImageShape)>>, <<NodeArg(PlainShape)>>)
PlainFile == File(<<PlainTensor>>, <<PlainTensor>>, <<NodeArg(PlainShape)>>, <<NodeArg(PlainShape)>>)

\* Command lines of two paths to either file, and of more paths to PlainFile.
Pairs == [1..2 -> {ImageFile, PlainFile}]
Batches == Pairs \cup UNION {[1..n -> {PlainFile}] : n \in 3..MaxPaths}

InitFrom(commandLines) ==
    /\ fs \in commandLines
    /\ pc = "main"
    /\ i = 0
    /\ path = 0
    /\ test_shape = <<>>
    /\ norm_idx = 0
    /\ ret = FALSE
    /\ log = <<>>

\* One path to any of the files, or a batch.
Init == InitFrom([1..1 -> GraphFiles \cup ShapeFiles] \cup Batches)

\* The command lines that vary the declared tensors, the runtime shapes, and
\* the number of paths.
InitGraph == InitFrom([1..1 -> GraphFiles] \cup Pairs)
InitShapes == InitFrom([1..1 -> ShapeFiles] \cup Pairs)
InitBatch == InitFrom([1..1 -> {ImageFile, PlainFile}] \cup Batches)

----------------------------------------------------------------------------
(* analyze_onnx_model *)

\* A return statement of analyze_onnx_model: control goes back to main,
\* either after line 159 or into line 164.
Return(lines, b) ==
    /\ log' = log \o lines \o <<Returned(path, b)>>
    /\ ret' = b
    /\ pc' = IF Len(fs) = 1 THEN "done" ELSE "banner"

\* Variant: the except clause reports success.
Fail_returns_true(lines) == Return(lines \o ErrorLines(path), TRUE)

\* The outer except clause, lines 146-148.
Fail(lines) == Return(lines \o ErrorLines(path), FALSE)

\* Variant: the result of the existence check is ignored.
Missing_ignored(exists) == FALSE

\* Line 18: the file is reported missing.
Missing(exists) == ~exists

\* Variant: a raising library call is swallowed and the analysis goes on.
Aborts_swallowed(outcome) == outcome \notin {"ok", "raises"}

\* Lines 22 and 146: an outcome that raises inside the try block ends the
\* analysis in the except clause.
Aborts(outcome) == outcome # "ok"

\* Lines 16-20.
ExistenceCheck ==
    /\ pc = "exists"
    /\ \E exists \in BOOLEAN :
          LET lines == <<Out("analyzing", path),
                         Call("exists", path, IF exists THEN "ok" ELSE "missing", 0)>>
          IN IF Missing(exists)
             THEN Return(lines \o <<Out("not_found", path)>>, FALSE)
             ELSE /\ log' = log \o lines
                  /\ pc' = "load"
                  /\ UNCHANGED ret
    /\ UNCHANGED <<fs, i, path, test_shape, norm_idx>>

\* Lines 24-31.
LoadModel ==
    /\ pc = "load"
    /\ \E outcome \in {"ok", "raises"} :
          LET lines == <<Call("load", path, outcome, 0)>>
          IN IF Aborts(outcome)
             THEN Fail(lines)
             ELSE /\ log' = log \o lines \o
                        <<Out("producer", path), Out("version", path),
                          Out("model_version", path), Out("doc_string", path),
                          Out("blank", path)>>
                  /\ pc' = "static"
                  /\ UNCHANGED ret
    /\ UNCHANGED <<fs, i, path, test_shape, norm_idx>>

\* Lines 34-71.
StaticShapes ==
    /\ pc = "static"
    /\ log' = log \o <<Out("input_information", path)>>
                  \o TensorsLines("input", path, fs[path].graph.input, 0)
                  \o <<Out("output_information", path)>>
                  \o TensorsLines("output", path, fs[path].graph.output, 0)
    /\ pc' = "session"
    /\ UNCHANGED <<fs, i, path, test_shape, norm_idx, ret>>

\* Lines 74-75.
CreateSession ==
    /\ pc = "session"
    /\ \E outcome \in {"ok", "raises"} :
          LET lines == <<Out("session_info", path), Call("session", path, outcome, 0)>>
          IN IF Aborts(outcome)
             THEN Fail(lines)
             ELSE /\ log' = log \o lines
                  /\ pc' = "runtime"
                  /\ UNCHANGED ret
    /\ UNCHANGED <<fs, i, path, test_shape, norm_idx>>

\* Lines 78-91.
RuntimeShapesStep ==
    /\ pc = "runtime"
    /\ log' = log \o <<Out("runtime_input_info", path)>>
                  \o NodeArgsLines(path, fs[path].inputs, 0)
                  \o <<Out("runtime_output_info", path)>>
                  \o NodeArgsLines(path, fs[path].outputs, 0)
    /\ pc' = "infer"
    /\ UNCHANGED <<fs, i, path, test_shape, norm_idx, ret>>

\* Lines 112-116: the statistics of the first output of the synthetic run.
\* Nothing is printed when session.run raised; result[0] raises when there
\* is no output, .min() when the output is empty.
ResultLines(m, outcome) ==
    IF outcome \in {"raises", "no_output"} THEN <<>>
    ELSE <<Out("output_shape", m), Out("output_dtype", m)>>
         \o (IF outcome = "empty_output" THEN <<>>
             ELSE <<Out("output_range", m), Out("output_mean", m), Out("output_std", m)>>)

\* Lines 94-116.
TestInference ==
    /\ pc = "infer"
    /\ LET head == <<Out("test_inference", path)>>
       IN IF Len(fs[path].inputs) = 0
          THEN /\ Fail(head)
               /\ UNCHANGED test_shape
          ELSE LET shape == TestShape(fs[path].inputs[1].shape)
                   lines == head \o <<OutShape("test_input_shape", path, shape)>>
               IN /\ test_shape' = shape
                  /\ IF RandRaises(shape)
                     THEN Fail(lines)
                     ELSE \E outcome \in RunOutcomes :
                            LET ran == lines \o <<Call("run", path, outcome, 0)>>
                            IN IF Aborts(outcome)
                               THEN Fail(ran \o ResultLines(path, outcome))
                               ELSE /\ log' = log \o ran \o ResultLines(path, outcome)
                                    /\ pc' = "layout"
                                    /\ UNCHANGED ret
    /\ UNCHANGED <<fs, i, path, norm_idx>>

\* Lines 119-125.
LayoutHeuristic ==
    /\ pc = "layout"
    /\ log' = log \o LayoutLines(path, test_shape)
    /\ pc' = "norm"
    /\ UNCHANGED <<fs, i, path, test_shape, norm_idx, ret>>

\* Lines 128-135, and line 144 when the probing block is skipped.
NormalizationEstimation ==
    /\ pc = "norm"
    /\ LET lines == <<Out("normalization_estimation", path)>>
       IN IF ProbesRun(test_shape)
          THEN /\ log' = log \o lines
               /\ norm_idx' = 1
               /\ pc' = "probe"
               /\ UNCHANGED ret
          ELSE /\ Return(lines, TRUE)
               /\ UNCHANGED norm_idx
    /\ UNCHANGED <<fs, i, path, test_shape>>

\* Variant: a failing probe is not caught by the inner try.
ProbeAborts_on_failure(ok) == ~ok

\* Lines 141-142: what a failing probe does to the analysis: it is caught.
ProbeAborts(ok) == FALSE

\* Lines 137-142: one iteration of the probe loop, and line 144 after the last.
Probe ==
    /\ pc = "probe"
    /\ \E ok \in BOOLEAN :
          LET lines == <<Call("probe_run", path, IF ok THEN "ok" ELSE "raises", norm_idx),
                         OutIdx(IF ok THEN "norm_result" ELSE "norm_failed", path, norm_idx, 0)>>
          IN IF ProbeAborts(ok)
             THEN /\ Fail(lines)
                  /\ UNCHANGED norm_idx
             ELSE IF norm_idx < Len(NormNames)
             THEN /\ log' = log \o lines
                  /\ norm_idx' = norm_idx + 1
                  /\ UNCHANGED <<pc, ret>>
             ELSE /\ Return(lines, TRUE)
                  /\ UNCHANGED norm_idx
    /\ UNCHANGED <<fs, i, path, test_shape>>

----------------------------------------------------------------------------
(* main *)

\* Lines 157-159, and the entry into the loop of line 162.
Main ==
    /\ pc = "main"
    /\ IF Len(fs) = 1
       THEN /\ path' = 1
            /\ pc' = "exists"
       ELSE /\ pc' = "loop"
            /\ UNCHANGED path
    /\ UNCHANGED <<fs, i, test_shape, norm_idx, ret, log>>

\* Lines 162-164: the progress banner and the call of the inspector.
LoopBanner ==
    /\ pc = "loop"
    /\ i < Len(fs)
    /\ log' = Append(log, OutIdx("progress", i + 1, i + 1, Len(fs)))
    /\ path' = i + 1
    /\ pc' = "exists"
    /\ UNCHANGED <<fs, i, test_shape, norm_idx, ret>>

\* Variant: the success banner is printed whatever the inspector returned.
BannerKind_always_success(r) == "success"

\* Lines 164-167: the banner for the value the inspector returned.
BannerKind(r) == IF r THEN "success" ELSE "failure"

\* Variant: the separator is printed after the last model too.
SeparatorAfter_off_by_one(idx, n) == idx < n

\* Line 169: is a separator printed after the model of index idx?
SeparatorAfter(idx, n) == idx < n - 1

\* Lines 164-171: the result banner, the separator, and the next iteration.
ResultBanner ==
    /\ pc = "banner"
    /\ log' = log \o <<Out(BannerKind(ret), path)>>
                  \o (IF SeparatorAfter(i, Len(fs))
                      THEN <<Out("separator", path), Out("blank", path)>>
                      ELSE <<>>)
    /\ i' = i + 1
    /\ pc' = "loop"
    /\ UNCHANGED <<fs, path, test_shape, norm_idx, ret>>

\* Line 162: the loop is exhausted.
LoopExit ==
    /\ pc = "loop"
    /\ i >= Len(fs)
    /\ pc' = "done"
    /\ UNCHANGED <<fs, i, path, test_shape, norm_idx, ret, log>>

Next ==
    \/ Main
    \/ LoopBanner
    \/ ExistenceCheck
    \/ LoadModel
    \/ StaticShapes
    \/ CreateSession
    \/ RuntimeShapesStep
    \/ TestInference
    \/ LayoutHeuristic
    \/ NormalizationEstimation
    \/ Probe
    \/ ResultBanner
    \/ LoopExit

Spec == Init /\ [][Next]_vars
SpecGraph == InitGraph /\ [][Next]_vars
SpecShapes == InitShapes /\ [][Next]_vars
SpecBatch == InitBatch /\ [][Next]_vars

----------------------------------------------------------------------------
(* Reading the history *)

Paths == 1..Len(fs)

\* The events of the analysis of path m, in order.
EvOf(m) == SelectSeq(log, LAMBDA e : e.m = m)

Has(m, ev, kind) ==
    \E j \in 1..Len(log) : log[j].m = m /\ log[j].ev = ev /\ log[j].kind = kind

HasCall(m, kind, outcome) ==
    \E j \in 1..Len(log) :
        log[j].m = m /\ log[j].ev = "call" /\ log[j].kind = kind /\ log[j].txt = outcome

Count(m, ev, kind) ==
    Cardinality({j \in 1..Len(log) : log[j].m = m /\ log[j].ev = ev /\ log[j].kind = kind})

HasReturned(m, val) ==
    \E j \in 1..Len(log) : log[j].m = m /\ log[j].ev = "return" /\ log[j].txt = val

LibraryCalls == {"load", "session", "run", "probe_run"}

\* The calls (kind and outcome) and the printed kinds among the events es.
CallsIn(es) ==
    {<<es[j].kind, es[j].txt>> : j \in {k \in 1..Len(es) : es[k].ev = "call"}}
PrintedIn(es) == {es[j].kind : j \in {k \in 1..Len(es) : es[k].ev = "print"}}
ReturnsIn(es) == SelectSeq(es, LAMBDA e : e.ev = "return")

\* The synthetic inference step of path m was entered and failed: there is no
\* first input, the random tensor cannot be built, session.run raised, or the
\* statistics of its first output cannot be computed.
InferenceFailed(m, es) ==
    /\ "test_inference" \in PrintedIn(es)
    /\ \/ Len(fs[m].inputs) = 0
       \/ \E j \in 1..Len(fs[m].inputs[1].shape) : fs[m].inputs[1].shape[j].ty = "none"
       \/ \E o \in RunOutcomes \ {"ok"} : <<"run", o>> \in CallsIn(es)

AnalysisFailed(m, es) ==
    \/ <<"exists", "missing">> \in CallsIn(es)
    \/ <<"load", "raises">> \in CallsIn(es)
    \/ <<"session", "raises">> \in CallsIn(es)
    \/ InferenceFailed(m, es)

----------------------------------------------------------------------------
(* Claims *)

StepKinds ==
    <<{"analyzing", "exists", "not_found"},
      {"load", "producer", "version", "model_version", "doc_string"},
      {"input_information", "output_information", "input", "output", "name", "type", "shape"},
      {"session_info", "session"},
      {"runtime_input_info", "runtime_output_info", "rt_name", "rt_shape", "rt_type"},
      {"test_inference", "test_input_shape", "run", "output_shape", "output_dtype",
       "output_range", "output_mean", "output_std"},
      {"tensor_format"},
      {"normalization_estimation", "probe_run", "norm_result", "norm_failed"},
      {"error", "return"}>>

StepOfKind ==
    [kd \in UNION {StepKinds[n] : n \in DOMAIN StepKinds} |->
        CHOOSE n \in DOMAIN StepKinds : kd \in StepKinds[n]]

InStep(e) == e.kind \in DOMAIN StepOfKind

\* The kinds every analysis that reached step s has printed in steps 2..s-1.
KeptKinds(s) ==
    (IF s > 2 THEN {"producer", "version", "model_version", "doc_string"} ELSE {})
    \cup (IF s > 3 THEN {"input_information", "output_information"} ELSE {})
    \cup (IF s > 4 THEN {"session_info"} ELSE {})
    \cup (IF s > 5 THEN {"runtime_input_info", "runtime_output_info"} ELSE {})

\* C2: within one analysis the steps run in the order load, static shapes,
\* session, runtime shapes, synthetic inference, layout, normalization; after
\* a failing load, session creation or synthetic inference nothing of a later
\* step happens (only the error report and the return follow), and what the
\* earlier steps printed is still on the console.
C2_StepsInOrderAbortOnFailure ==
    \A m \in Paths :
        LET es == SelectSeq(log, LAMBDA e : e.m = m /\ InStep(e))
            st == [j \in 1..Len(es) |-> StepOfKind[es[j].kind]]
            failed(j) == /\ es[j].ev = "call"
                         /\ es[j].kind \in {"load", "session", "run"}
                         /\ es[j].txt # "ok"
        IN /\ \A j \in 1..(Len(es) - 1) : st[j] <= st[j + 1]
           /\ \A j \in 1..Len(es) :
                 failed(j) =>
                    /\ \A k \in (j + 1)..Len(es) : st[k] \in {9, st[j]} /\ es[k].ev # "call"
                    /\ \A kd \in KeptKinds(st[j]) :
                          \E k \in 1..(j - 1) : es[k].ev = "print" /\ es[k].kind = kd
                    /\ (es[j].kind = "session" =>
                          \A k \in 1..Len(es) : st[k] \notin {5, 6, 7, 8})

\* C2 witness: a session creation failed after the static shapes were printed,
\* and the analysis has returned.
C2_Witness ==
    \E m \in Paths :
        /\ HasCall(m, "session", "raises")
        /\ Has(m, "print", "shape")
        /\ HasReturned(m, "False")

\* C3: for a path that does not exist, "file not found" is reported, False is
\* returned, and no library call (load, session creation, inference) is made.
C3_MissingFileNoLibraryCall ==
    \A m \in Paths :
        LET es == EvOf(m)
            rets == ReturnsIn(es)
        IN <<"exists", "missing">> \in CallsIn(es) =>
              /\ "not_found" \in PrintedIn(es)
              /\ Len(rets) = 1 /\ rets[1].txt = "False"
              /\ CallsIn(es) = {<<"exists", "missing">>}
              /\ PrintedIn(es) \subseteq
                    {"progress", "analyzing", "not_found", "failure", "separator", "blank"}

\* C3 witness: a single missing path was analysed and the program is done.
C3_Witness ==
    /\ pc = "done"
    /\ Len(fs) = 1
    /\ HasCall(1, "exists", "missing")

\* C4: for two or more paths, main analyses every path once, in input order,
\* each analysis starting only after the previous one has returned and its
\* banner is printed; a failed analysis stops nothing; the banner after the
\* i-th analysis is the success banner exactly when it returned True.
C4_EveryPathOnceInOrder ==
    Len(fs) >= 2 =>
        LET starts == SelectSeq(log, LAMBDA e : e.kind = "analyzing")
            rets == SelectSeq(log, LAMBDA e : e.ev = "return")
            banners == SelectSeq(log, LAMBDA e : e.kind \in {"success", "failure"})
        IN /\ \A j \in 1..Len(starts) : starts[j].m = j
           /\ \A j \in 1..Len(rets) : rets[j].m = j
           /\ Len(starts) <= Len(fs)
           /\ Len(banners) <= Len(rets)
           /\ Len(rets) <= Len(starts)
           /\ Len(starts) <= Len(banners) + 1
           /\ \A j \in 1..Len(banners) :
                 /\ banners[j].m = j
                 /\ banners[j].kind = "success" <=> rets[j].txt = "True"
           /\ \A j \in 1..(Len(log) - 1) : log[j].m <= log[j + 1].m
           /\ (pc = "done" => Len(starts) = Len(fs) /\ Len(banners) = Len(fs))

\* C4 witness: a finished batch of at least three paths whose first analysis
\* failed and whose last succeeded.
C4_Witness ==
    /\ pc = "done"
    /\ Len(fs) >= 3
    /\ Has(1, "print", "failure")
    /\ Has(Len(fs), "print", "success")

\* C5: for N >= 2 paths a progress banner i/N comes right before the i-th
\* analysis, and a separator right after the banner of every model but the
\* last, so N-1 separators in all, each followed by the next model; for one
\* path there is no progress banner, no result banner and no separator.
C5_ProgressAndSeparators ==
    LET n == Len(log)
        progress == SelectSeq(log, LAMBDA e : e.kind = "progress")
        seps == SelectSeq(log, LAMBDA e : e.kind = "separator")
        starts == SelectSeq(log, LAMBDA e : e.kind = "analyzing")
    IN /\ Len(fs) >= 2 =>
             /\ \A j \in 1..Len(progress) : progress[j].a = j /\ progress[j].b = Len(fs)
             /\ \A j \in 1..Len(seps) : seps[j].m = j /\ j < Len(fs)
             /\ \A p \in 1..n :
                   /\ (log[p].kind = "progress" /\ p < n) =>
                         log[p + 1].kind = "analyzing" /\ log[p + 1].m = log[p].a
                   /\ log[p].kind = "analyzing" =>
                         p > 1 /\ log[p - 1].kind = "progress" /\ log[p - 1].a = log[p].m
                   /\ log[p].kind = "separator" =>
                         /\ log[p - 1].kind \in {"success", "failure"}
                         /\ log[p - 1].m = log[p].m
                         /\ (p + 2 <= n =>
                               log[p + 2].kind = "progress" /\ log[p + 2].a = log[p].m + 1)
                   /\ (log[p].kind \in {"success", "failure"} /\ log[p].m < Len(fs)) =>
                         p < n /\ log[p + 1].kind = "separator"
             /\ (pc = "done" =>
                   Len(progress) = Len(fs) /\ Len(seps) = Len(fs) - 1)
       /\ Len(fs) = 1 =>
             /\ \A p \in 1..n :
                   log[p].kind \notin {"progress", "success", "failure", "separator"}
             /\ Len(starts) <= 1
             /\ (pc = "done" => Len(starts) = 1)

\* C5 witness: a finished batch of at least three paths, with a separator
\* after the second model.
C5_Witness ==
    /\ pc = "done"
    /\ Len(fs) >= 3
    /\ Has(2, "print", "separator")

\* The test shapes printed for path m (line 106).
TestShapesOf(es) == SelectSeq(es, LAMBDA e : e.kind = "test_input_shape")

\* C6 as stated: for a test shape of other than 4 dimensions nothing of the
\* layout heuristic and nothing of the normalization probing is printed, and
\* no probe inference is made.
C6_NoOutputUnlessFourDims ==
    \A m \in Paths :
        LET es == EvOf(m)
            shapes == TestShapesOf(es)
        IN (Len(shapes) = 1 /\ Len(shapes[1].shape) # 4) =>
              /\ PrintedIn(es) \cap {"tensor_format", "normalization_estimation",
                                     "norm_result", "norm_failed"} = {}
              /\ \A o \in {"ok", "raises"} : <<"probe_run", o>> \notin CallsIn(es)

\* C6 amended: for a test shape of other than 4 dimensions no tensor-format
\* line and no probe result or failure line is printed and no probe inference
\* is made; the header of the normalization section is still printed, once,
\* when the synthetic inference succeeded.
C6_OnlyHeaderUnlessFourDims ==
    \A m \in Paths :
        LET es == EvOf(m)
            shapes == TestShapesOf(es)
            rets == ReturnsIn(es)
            headers == SelectSeq(es, LAMBDA e : e.kind = "normalization_estimation")
        IN (Len(shapes) = 1 /\ Len(shapes[1].shape) # 4) =>
              /\ PrintedIn(es) \cap {"tensor_format", "norm_result", "norm_failed"} = {}
              /\ \A o \in {"ok", "raises"} : <<"probe_run", o>> \notin CallsIn(es)
              /\ Len(headers) <= 1
              /\ (Len(headers) = 1 => <<"run", "ok">> \in CallsIn(es))
              /\ (Len(rets) = 1 /\ <<"run", "ok">> \in CallsIn(es) => Len(headers) = 1)

\* C6 witness: an analysis with a two-dimensional test shape returned True.
C6_Witness ==
    \E m \in Paths :
        /\ \E j \in 1..Len(log) :
              log[j].m = m /\ log[j].kind = "test_input_shape" /\ Len(log[j].shape) = 2
        /\ HasReturned(m, "True")

\* C7: the test shape has the length of the first input's runtime shape and
\* holds 1 where the runtime dimension is a symbolic name or -1, and the
\* runtime dimension itself elsewhere.
C7_TestShapeReplacesDynamicDims ==
    \A m \in Paths :
        LET shapes == TestShapesOf(EvOf(m))
        IN /\ Len(shapes) <= 1
           /\ Len(shapes) = 1 =>
                 LET rs == fs[m].inputs[1].shape
                     ts == shapes[1].shape
                 IN /\ Len(ts) = Len(rs)
                    /\ \A j \in 1..Len(rs) :
                          ts[j] = IF rs[j].ty = "str" \/ (rs[j].ty = "int" /\ rs[j].i = -1)
                                  THEN [ty |-> "int", i |-> 1, s |-> ""]
                                  ELSE rs[j]
                    /\ (m = path /\ pc \in {"layout", "norm", "probe"} => test_shape = ts)

\* C7 witness: the runtime shape [-1, N, 3, 2] gave the test shape [1, 1, 3, 2].
C7_Witness ==
    /\ Len(fs) = 1
    /\ Len(fs[1].inputs) = 1
    /\ fs[1].inputs[1].shape = <<IntElem(-1), StrElem("N"), IntElem(3), IntElem(2)>>
    /\ \E j \in 1..Len(log) :
          /\ log[j].kind = "test_input_shape"
          /\ log[j].shape = <<IntElem(1), IntElem(1), IntElem(3), IntElem(2)>>

\* C8: for a 4-dimensional test shape whose synthetic inference succeeded
\* exactly one layout label is printed: NCHW if dimension 1 is 3, otherwise
\* NHWC if dimension 3 is 3, otherwise Unknown (dimensions counted from 0).
C8_LayoutLabel ==
    \A m \in Paths :
        LET es == EvOf(m)
            shapes == TestShapesOf(es)
            labels == SelectSeq(es, LAMBDA e : e.kind = "tensor_format")
        IN /\ Len(labels) <= 1
           /\ Len(labels) = 1 =>
                 /\ Len(shapes) = 1 /\ Len(shapes[1].shape) = 4
                 /\ <<"run", "ok">> \in CallsIn(es)
                 /\ labels[1].txt =
                       IF shapes[1].shape[2] = [ty |-> "int", i |-> 3, s |-> ""] THEN "NCHW"
                       ELSE IF shapes[1].shape[4] = [ty |-> "int", i |-> 3, s |-> ""] THEN "NHWC"
                       ELSE "Unknown"
           /\ (/\ Len(shapes) = 1 /\ Len(shapes[1].shape) = 4
               /\ "normalization_estimation" \in PrintedIn(es)) => Len(labels) = 1

\* C8 witness: a test shape with 3 at index 1 and at index 3 was labelled NCHW.
C8_Witness ==
    \E m \in Paths :
        /\ \E j \in 1..Len(log) :
              /\ log[j].m = m /\ log[j].kind = "test_input_shape"
              /\ log[j].shape = <<IntElem(1), IntElem(3), IntElem(2), IntElem(3)>>
        /\ \E j \in 1..Len(log) :
              log[j].m = m /\ log[j].kind = "tensor_format" /\ log[j].txt = "NCHW"

\* C9: on a 4-dimensional test shape the three probes run once each, in the
\* order 0-1, [-1,1], ImageNet, whatever the earlier probes did; a failing
\* probe is reported as failed, the later ones still run, and the analysis
\* returns True.
C9_AllProbesRun ==
    \A m \in Paths :
        LET es == EvOf(m)
            shapes == TestShapesOf(es)
            rets == ReturnsIn(es)
            probes == SelectSeq(es, LAMBDA e : e.ev = "call" /\ e.kind = "probe_run")
        IN /\ Len(probes) <= 3
           /\ \A j \in 1..Len(probes) : probes[j].a = j
           /\ \A p \in 1..Len(es) :
                 (es[p].ev = "call" /\ es[p].kind = "probe_run") =>
                    /\ p < Len(es)
                    /\ es[p + 1].kind = (IF es[p].txt = "ok" THEN "norm_result" ELSE "norm_failed")
                    /\ es[p + 1].a = es[p].a
           /\ (Len(probes) > 0 => "error" \notin PrintedIn(es))
           /\ (/\ Len(rets) = 1
               /\ Len(shapes) = 1 /\ Len(shapes[1].shape) = 4
               /\ <<"run", "ok">> \in CallsIn(es))
              => (Len(probes) = 3 /\ rets[1].txt = "True")

\* C9 witness: all three probes failed and the analysis returned True.
C9_Witness ==
    \E m \in Paths :
        /\ Count(m, "print", "norm_failed") = 3
        /\ HasReturned(m, "True")

\* The shape element the claim states (stated) and the one it should state
\* (amended: a size of 0 and an empty name count as not declared).
ClaimedElem(stated, dim) ==
    IF dim.which = "dim_value" /\ (stated \/ dim.dim_value # 0)
    THEN [ty |-> "int", i |-> dim.dim_value, s |-> ""]
    ELSE IF dim.which = "dim_param" /\ (stated \/ dim.dim_param # "")
    THEN [ty |-> "str", i |-> 0, s |-> dim.dim_param]
    ELSE [ty |-> "str", i |-> 0, s |-> "unknown"]

RECURSIVE ClaimedLines(_, _, _, _, _)
\* The lines the claim expects for the declared tensors ts, from index idx.
ClaimedLines(stated, head, m, ts, idx) ==
    IF idx >= Len(ts) THEN <<>>
    ELSE LET t == ts[idx + 1]
         IN <<OutIdx(head, m, idx, 0), OutTxt("name", m, t.name), OutTxt("type", m, t.type)>>
            \o (IF stated \/ Len(t.dims) > 0
                THEN <<OutShape("shape", m,
                          [j \in 1..Len(t.dims) |-> ClaimedElem(stated, t.dims[j])])>>
                ELSE <<>>)
            \o ClaimedLines(stated, head, m, ts, idx + 1)

TensorLinesOf(m) ==
    SelectSeq(log, LAMBDA e :
        e.m = m /\ e.kind \in {"input", "output", "name", "type", "shape"})

StaticStepDone(m) ==
    \E j \in 1..Len(log) : log[j].m = m /\ log[j].kind = "session_info"

\* C10 as stated: for every declared input and output, whatever its number of
\* dimensions, the name, the type and a derived shape are printed; each
\* element of the shape is the fixed size if one is declared, else the
\* symbolic name if one is declared, else "unknown".
C10_ShapePrintedForEveryTensor ==
    \A m \in Paths :
        StaticStepDone(m) =>
            TensorLinesOf(m) = ClaimedLines(TRUE, "input", m, fs[m].graph.input, 0)
                               \o ClaimedLines(TRUE, "output", m, fs[m].graph.output, 0)

\* C10 amended: for every declared input and output the name and the type are
\* printed, and a derived shape when it declares at least one dimension; each
\* element of the shape is the fixed size if a non-zero one is declared, else
\* the symbolic name if a non-empty one is declared, else "unknown".
C10_ShapePrintedForDimensionedTensors ==
    \A m \in Paths :
        StaticStepDone(m) =>
            TensorLinesOf(m) = ClaimedLines(FALSE, "input", m, fs[m].graph.input, 0)
                               \o ClaimedLines(FALSE, "output", m, fs[m].graph.output, 0)

\* C10 witness: the static shapes of a model with a second input that
\* declares a symbolic and a fixed dimension were printed.
C10_Witness ==
    /\ Len(fs) = 1
    /\ Len(fs[1].graph.input) = 2
    /\ fs[1].graph.input[2].dims = <<DimParam("N"), DimValue(3)>>
    /\ StaticStepDone(1)
    /\ \E j \in 1..Len(log) :
          log[j].kind = "shape" /\ log[j].shape = <<StrElem("N"), IntElem(3)>>

====
